---- MODULE Spec2Model ----
(***************************************************************************)
(* ParquetGCSDataSet (kedro/contrib/io/gcs/parquet_gcs.py): a dataset that *)
(* loads and saves a table as a Parquet object on Google Cloud Storage,    *)
(* with optional versioning.                                               *)
(*                                                                         *)
(* The adapter's methods (_describe, _load, _save, _exists,                *)
(* invalidate_cache) are translated from the source.  Its collaborators    *)
(* are modelled from their contract in the specification:                  *)
(*   - the version resolution of AbstractVersionedDataSet                   *)
(*     (_get_load_path, _get_save_path, _get_versioned_path), which the    *)
(*     adapter configures with exists_function = gcs.exists and            *)
(*     glob_function = gcs.glob;                                           *)
(*   - the GCS client (exists, glob, open, write, invalidate_cache), whose *)
(*     listing cache may hold a stale view of the store;                   *)
(*   - the Parquet encoder and decoder.                                    *)
(*                                                                         *)
(* A method body is a Python sequence of calls any of which may raise.     *)
(* It is written here as a chain of operators over a "run" record          *)
(*   [objects, dircache, calls, exc, ret, path, keep, failAt]              *)
(* holding the store, the log of store calls made so far, the exception    *)
(* in flight ("None" when there is none) and the value returned.  A call   *)
(* made while an exception is in flight is skipped: that is Python's       *)
(* propagation.                                                            *)
(***************************************************************************)
EXTENDS Integers, Sequences, FiniteSets, TLC

\* ---------------------------------------------------------------- bounds
\* Version identifiers are 1..MaxVersion, ordered as their timestamps are.
MaxVersion == 2
\* The store calls of one method are numbered from 1; a transport failure
\* is injected at call number 1..MaxCalls (_save makes three calls).
MaxCalls == 3

Versions == 1..MaxVersion
Tables == {"df1", "df2"}
ArgSets == {"defaults", "custom"}

\* Version.load / Version.save = None
NoVersion == 0
\* The dataset's _filepath.  A path is a number: FilePath is the filepath
\* itself and v in Versions is the versioned path filepath/v/filepath.name.
FilePath == 0
Paths == {FilePath} \cup Versions
NoPath == -1

VARIABLES
    _filepath,    \* self._filepath
    _version,     \* self._version: [versioned, load, save]
    _load_args,   \* self._load_args
    _save_args,   \* self._save_args
    objects,     \* the remote store: path -> object
    dircache,    \* the GCS client's listing cache: path -> listing
    caching,     \* whether the GCS client caches the listings it fetches (gcsfs_args)
    faulty,      \* whether the transport to the store may fail
    op           \* the last call made on the adapter and its outcome

config == <<_filepath, _version, _load_args, _save_args>>
vars == <<_filepath, _version, _load_args, _save_args, objects, dircache, caching, faulty, op>>

\* ------------------------------------------------------------ the store
AbsentObject == [present |-> FALSE, table |-> "none"]
Uncached == [cached |-> FALSE, object |-> FALSE, children |-> {}]

\* What the store lists at path p now: whether an object is stored at p,
\* and the version directories below p that hold an object.
Listing(objs, p) ==
    [cached |-> TRUE,
     object |-> objs[p].present,
     children |-> IF p = FilePath
                  THEN {v \in Versions : objs[v].present}
                  ELSE {}]

Raise(r, e) == [r EXCEPT !.exc = e]
Fails(r) == Len(r.calls) + 1 = r.failAt
\* One entry of the log of store calls: the call, its path, whether the
\* listing cache answered it, its answer (found: of exists, listed: of glob)
\* and the exception it raised.
Logged(r, fn, p, hit, found, listed) ==
    Append(r.calls, [fn |-> fn, path |-> p, hit |-> hit, found |-> found,
                     listed |-> listed, raised |-> "None"])
Failed(r, fn, p, e) ==
    [r EXCEPT !.calls = Append(r.calls, [fn |-> fn, path |-> p, hit |-> FALSE,
                                         found |-> FALSE, listed |-> {},
                                         raised |-> e]),
              !.exc = e]
\* A failure of the transport (authentication, network, permission).
TransportFailure(r, fn, p) == Failed(r, fn, p, "StoreError")
\* The listing the client holds for a path after fetching l: l when the
\* client was constructed to cache listings (r.keep), none otherwise.
Fetched(r, l) == IF r.keep THEN l ELSE Uncached

\* gcs.exists(path): answered from the cached listing of the path when there
\* is one, else from the store.
gcs_exists(r, p) ==
    IF r.exc # "None" THEN r
    ELSE IF Fails(r) THEN TransportFailure(r, "exists", p)
    ELSE LET hit == r.dircache[p].cached
             l == IF hit THEN r.dircache[p] ELSE Listing(r.objects, p)
         IN [r EXCEPT !.dircache[p] = IF hit THEN l ELSE Fetched(r, l),
                      !.calls = Logged(r, "exists", p, hit, l.object, {}),
                      !.ret = l.object]

\* gcs.glob(filepath/*/name): the versions listed below the filepath, from
\* the cached listing when there is one.
gcs_glob(r, p) ==
    IF r.exc # "None" THEN r
    ELSE IF Fails(r) THEN TransportFailure(r, "glob", p)
    ELSE LET hit == r.dircache[p].cached
             l == IF hit THEN r.dircache[p] ELSE Listing(r.objects, p)
         IN [r EXCEPT !.dircache[p] = IF hit THEN l ELSE Fetched(r, l),
                      !.calls = Logged(r, "glob", p, hit, FALSE, l.children),
                      !.ret = l.children]

\* gcs.open(path, mode="rb"): reads the object itself, not the listing.
gcs_open(r, p) ==
    IF r.exc # "None" THEN r
    ELSE IF Fails(r) THEN TransportFailure(r, "open", p)
    ELSE IF ~r.objects[p].present
    THEN Failed(r, "open", p, "FileNotFoundError")
    ELSE [r EXCEPT !.calls = Logged(r, "open", p, FALSE, FALSE, {}),
                   !.ret = r.objects[p]]

\* Writing an object through the filesystem: the store holds it when the
\* call returns; the client's cached listings are left as they were.
gcs_write(r, p, bytes) ==
    IF r.exc # "None" THEN r
    ELSE IF Fails(r) THEN TransportFailure(r, "write", p)
    ELSE [r EXCEPT !.objects[p] = bytes,
                   !.calls = Logged(r, "write", p, FALSE, FALSE, {}),
                   !.ret = "None"]

\* gcs.invalidate_cache(path): drops the cached listing for this path.
gcs_invalidate_cache(r, p) ==
    IF r.exc # "None" THEN r
    ELSE IF Fails(r) THEN TransportFailure(r, "invalidate_cache", p)
    ELSE [r EXCEPT !.dircache[p] = Uncached,
                   !.calls = Logged(r, "invalidate_cache", p, FALSE, FALSE, {}),
                   !.ret = "None"]

\* ------------------------------------------------- the Parquet encoding
\* pa.Table.from_pandas + pq.write_table: the bytes of the object.
to_parquet(data, args) == [present |-> TRUE, table |-> data]
\* pd.read_parquet: the table the bytes hold.
read_parquet(bytes, args) == bytes.table

\* --------------------------------------------------- version resolution
Max(S) == CHOOSE x \in S : \A y \in S : y <= x

_get_versioned_path(v) == v

\* The load path: the filepath when unversioned, the pinned version when
\* one is given, else the latest version the glob lists; no version listed
\* is a DataSetError.
_get_load_path(r) ==
    IF r.exc # "None" THEN r
    ELSE IF ~_version.versioned THEN [r EXCEPT !.ret = _filepath]
    ELSE IF _version.load # NoVersion
    THEN [r EXCEPT !.ret = _get_versioned_path(_version.load)]
    ELSE LET g == gcs_glob(r, _filepath)
         IN IF g.exc # "None" THEN g
            ELSE IF g.ret = {} THEN Raise(g, "DataSetError")
            ELSE [g EXCEPT !.ret = _get_versioned_path(Max(g.ret))]

\* The save path: the filepath when unversioned, else the versioned path of
\* the pinned save version or of the generated one (now), which must not
\* exist yet according to exists_function.
_get_save_path(r, now) ==
    IF r.exc # "None" THEN r
    ELSE IF ~_version.versioned THEN [r EXCEPT !.ret = _filepath]
    ELSE LET sv == IF _version.save # NoVersion THEN _version.save ELSE now
             p == _get_versioned_path(sv)
             e == gcs_exists(r, p)
         IN IF e.exc # "None" THEN e
            ELSE IF e.ret THEN Raise(e, "DataSetError")
            ELSE [e EXCEPT !.ret = p]

\* ---------------------------------------------------------- the adapter
Resolved(r) == IF r.exc = "None" THEN [r EXCEPT !.path = r.ret] ELSE r

\* _describe with the two option sets exchanged.
describe_swapped(r) ==
    [r EXCEPT !.ret = [filepath |-> _filepath, load_args |-> _save_args,
                       save_args |-> _load_args, version |-> _version]]

_describe(r) ==
    [r EXCEPT !.ret = [filepath |-> _filepath, load_args |-> _load_args,
                       save_args |-> _save_args, version |-> _version]]

invalidate_cache(r) == gcs_invalidate_cache(r, _filepath)

\* _load reading self._filepath instead of the resolved load path.
load_filepath(r) ==
    LET load_path == [r EXCEPT !.path = _filepath]
        gcs_file == gcs_open(load_path, load_path.path)
    IN IF gcs_file.exc # "None" THEN gcs_file
       ELSE [gcs_file EXCEPT !.ret = read_parquet(gcs_file.ret, _load_args)]

_load(r) ==
    LET load_path == Resolved(_get_load_path(r))
        gcs_file == gcs_open(load_path, load_path.path)
    IN IF gcs_file.exc # "None" THEN gcs_file
       ELSE [gcs_file EXCEPT !.ret = read_parquet(gcs_file.ret, _load_args)]

\* _save writing to self._filepath instead of the resolved save path.
save_filepath(r, data, now) ==
    LET save_path == Resolved(_get_save_path(r, now))
        written == gcs_write(save_path, _filepath, to_parquet(data, _save_args))
    IN invalidate_cache(written)

_save(r, data, now) ==
    LET save_path == Resolved(_get_save_path(r, now))
        written == gcs_write(save_path, save_path.path,
                             to_parquet(data, _save_args))
    IN invalidate_cache(written)

\* _exists without the try/except around the resolution.
exists_uncaught(r) ==
    LET load_path == Resolved(_get_load_path(r))
    IN gcs_exists(load_path, load_path.path)

\* _exists asking the store about self._filepath instead of the load path.
exists_filepath(r) ==
    LET load_path == Resolved(_get_load_path(r))
    IN IF load_path.exc = "DataSetError"
       THEN [load_path EXCEPT !.exc = "None", !.ret = FALSE]
       ELSE gcs_exists(load_path, _filepath)

\* _exists with "except Exception" in place of "except DataSetError".
exists_swallowing(r) ==
    LET load_path == Resolved(_get_load_path(r))
    IN IF load_path.exc # "None"
       THEN [load_path EXCEPT !.exc = "None", !.ret = FALSE]
       ELSE gcs_exists(load_path, load_path.path)

_exists(r) ==
    LET load_path == Resolved(_get_load_path(r))
    IN IF load_path.exc = "DataSetError"
       THEN [load_path EXCEPT !.exc = "None", !.ret = FALSE]
       ELSE gcs_exists(load_path, load_path.path)

\* ------------------------------------------------------------- actions
VersionTokens ==
    {[versioned |-> FALSE, load |-> NoVersion, save |-> NoVersion]}
    \cup [versioned : {TRUE},
          load : {NoVersion} \cup Versions,
          save : {NoVersion} \cup Versions]

NoSave == [saved |-> FALSE, path |-> NoPath, data |-> "none"]
\* What a method returned, by the type of the value: the bool of _exists,
\* the table of _load, the dict of _describe; NoReturn is None, and stands
\* for no value when the method raised.
NoReturn ==
    [bool |-> FALSE, table |-> "none",
     dict |-> [filepath |-> NoPath, load_args |-> "none", save_args |-> "none",
               version |-> [versioned |-> FALSE, load |-> NoVersion,
                            save |-> NoVersion]]]
Returned(name, value) ==
    CASE name = "exists" -> [NoReturn EXCEPT !.bool = value]
      [] name = "load" -> [NoReturn EXCEPT !.table = value]
      [] name = "describe" -> [NoReturn EXCEPT !.dict = value]
      [] OTHER -> NoReturn
Idle == [name |-> "none", exc |-> "None", ret |-> NoReturn, calls |-> <<>>,
         path |-> NoPath, data |-> "none", after |-> NoSave]

\* The paths the dataset's objects live at.
DatasetPaths == IF _version.versioned THEN Versions ELSE {_filepath}

InitStore ==
    /\ _filepath = FilePath
    /\ _version \in VersionTokens
    /\ _load_args \in ArgSets
    /\ _save_args \in ArgSets
    /\ objects = [p \in Paths |-> AbsentObject]
    /\ dircache = [p \in Paths |-> Uncached]
    /\ caching \in BOOLEAN
    /\ op = Idle

\* The store is reachable.
Init == InitStore /\ faulty = FALSE
\* The transport to the store may fail at any call; the pandas options,
\* which no store call reads, are at their defaults.
InitFault ==
    InitStore /\ faulty = TRUE /\ _load_args = "defaults" /\ _save_args = "defaults"

FaultPoints == IF faulty THEN 0..MaxCalls ELSE {0}

Start(f) ==
    [objects |-> objects, dircache |-> dircache, calls |-> <<>>,
     exc |-> "None", ret |-> "None", path |-> NoPath, keep |-> caching,
     failAt |-> f]

\* Whether the call being made follows a save() that returned.
After == IF op.name = "save" /\ op.exc = "None"
         THEN [saved |-> TRUE, path |-> op.path, data |-> op.data]
         ELSE NoSave

Finish(name, data, r) ==
    /\ objects' = r.objects
    /\ dircache' = r.dircache
    /\ op' = [name |-> name, exc |-> r.exc,
              ret |-> IF r.exc = "None" THEN Returned(name, r.ret)
                      ELSE NoReturn,
              calls |-> r.calls, path |-> r.path, data |-> data,
              after |-> After]
    /\ UNCHANGED <<_filepath, _version, _load_args, _save_args, caching, faulty>>

Describe == Finish("describe", "none", _describe(Start(0)))

Load ==
    \E f \in FaultPoints :
        Finish("load", "none", _load(Start(f)))

\* generate_timestamp() is consulted only when no save version is pinned.
Timestamps ==
    IF _version.versioned /\ _version.save = NoVersion THEN Versions ELSE {NoVersion}

Save ==
    \E f \in FaultPoints, data \in Tables, now \in Timestamps :
        Finish("save", data, _save(Start(f), data, now))

Exists ==
    \E f \in FaultPoints :
        Finish("exists", "none", _exists(Start(f)))

\* Another party writes an object of the dataset.
OtherWrite ==
    \E p \in DatasetPaths, data \in Tables :
        /\ objects' = [objects EXCEPT ![p] = to_parquet(data, "defaults")]
        /\ op' = Idle
        /\ UNCHANGED <<_filepath, _version, _load_args, _save_args, dircache, caching, faulty>>

Next == Describe \/ Load \/ Save \/ Exists \/ OtherWrite

Spec == Init /\ [][Next]_vars
SpecFault == InitFault /\ [][Next]_vars

\* ------------------------------------------------------------- claims
\* The versions that hold an object in the store.
Present == {v \in Versions : objects[v].present}
\* The path of the latest version in the store, NoPath when there is none.
LatestPresent ==
    IF Present = {} THEN NoPath ELSE _get_versioned_path(Max(Present))
\* The two shapes of the not-found condition: no version to resolve to, and
\* no object at the resolved path.
NotFound == {"DataSetError", "FileNotFoundError"}
Latest == _version.versioned /\ _version.load = NoVersion
Pinned == _version.versioned /\ _version.load # NoVersion
\* The positions in the log of the calls of fn made by the last method.
Called(fn) == {i \in DOMAIN op.calls : op.calls[i].fn = fn}

\* The load selector names the object the preceding save() wrote.
LoadsTheSavedVersion ==
    \/ ~_version.versioned
    \/ Pinned /\ _get_versioned_path(_version.load) = op.after.path
    \/ Latest /\ op.after.path = LatestPresent

\* C1, as claimed: whatever the version policy, a load() that directly
\* follows a save(t) that returned, returns t.
C1_RoundTrip ==
    (op.name = "load" /\ op.after.saved)
        => (op.exc = "None" /\ op.ret.table = op.after.data)

\* C1, amended: a load() that directly follows a save(t) that returned,
\* returns t when the load selector names the version that was saved (an
\* unversioned dataset, a pinned load version equal to the saved one, or
\* 'latest' with the saved version the latest in the store).
C1_RoundTripOfTheSavedVersion ==
    (op.name = "load" /\ op.after.saved /\ LoadsTheSavedVersion)
        => (op.exc = "None" /\ op.ret.table = op.after.data)

C1_Witness ==
    /\ op.name = "load" /\ op.after.saved /\ Latest /\ caching
    /\ Cardinality(Present) > 1
    /\ op.exc = "None" /\ op.ret.table = op.after.data

\* No object exists where the load selector points.
NoObject ==
    IF ~_version.versioned THEN ~objects[_filepath].present
    ELSE IF Latest THEN Present = {}
    ELSE ~objects[_get_versioned_path(_version.load)].present

\* C2: when no object exists for the (location, version) pair, exists()
\* returns false and load() fails with the not-found condition.
C2_AbsentIsNotFound ==
    NoObject =>
        /\ op.name = "exists" => (op.exc = "None" /\ op.ret.bool = FALSE)
        /\ op.name = "load" => op.exc \in NotFound

C2_Witness ==
    /\ NoObject /\ Pinned /\ Present # {}
    /\ op.name = "load" /\ op.exc = "FileNotFoundError"

\* C3: every save() call, on every exit path, makes exactly one
\* invalidate_cache call, for the path it wrote to, after the write.
C3_InvalidatesTheWrittenPathOnEveryExit ==
    op.name = "save" =>
        /\ Cardinality(Called("invalidate_cache")) = 1
        /\ \A i \in Called("invalidate_cache") :
              /\ op.calls[i].path = op.path
              /\ \E j \in Called("write") :
                    j < i /\ op.calls[j].path = op.calls[i].path

\* C3, what the code does instead: a save() that returns makes exactly one
\* invalidate_cache call, as its last store call and right after its one
\* write; the call names the dataset's filepath, while the write names the
\* resolved save path.  A save() that raises (in the resolution, or on a
\* failure of the store) has completed no invalidate_cache call.  It holds
\* under Spec and under SpecFault.
C3_InvalidatesTheFilepathOnReturn ==
    op.name = "save" =>
        IF op.exc = "None"
        THEN /\ Len(op.calls) >= 2
             /\ Called("invalidate_cache") = {Len(op.calls)}
             /\ op.calls[Len(op.calls)].path = _filepath
             /\ Called("write") = {Len(op.calls) - 1}
             /\ op.calls[Len(op.calls) - 1].path = op.path
        ELSE \A i \in Called("invalidate_cache") : op.calls[i].raised # "None"

C3_VersionedSave ==
    /\ op.name = "save" /\ op.exc = "None"
    /\ _version.versioned /\ op.path # _filepath

\* C4: once save(t) has returned, an exists() on the object it wrote returns
\* true and a load() of it does not fail with not-found, unversioned or
\* versioned.
C4_NoStaleMissAfterSave ==
    (op.after.saved /\ LoadsTheSavedVersion) =>
        /\ op.name = "exists" => (op.exc = "None" /\ op.ret.bool = TRUE)
        /\ op.name = "load" => op.exc \notin NotFound

\* The resolution of the load path raised DataSetError: 'latest' was asked
\* for and the glob listed no version.
ResolutionFailed ==
    /\ Latest
    /\ Len(op.calls) >= 1
    /\ op.calls[1].fn = "glob"
    /\ op.calls[1].raised = "None"
    /\ op.calls[1].listed = {}

\* The load path the version token selects, given what the glob answered.
ExpectedLoadPath ==
    IF ~_version.versioned THEN _filepath
    ELSE IF Pinned THEN _get_versioned_path(_version.load)
    ELSE _get_versioned_path(Max(op.calls[1].listed))

\* C5: exists() raises nothing when the resolution of the load path fails
\* and returns false; otherwise it returns the answer of the store's
\* existence check on the resolved load path.
C5_ExistsContract ==
    op.name = "exists" =>
        /\ op.exc = "None"
        /\ IF ResolutionFailed
           THEN op.ret.bool = FALSE /\ Len(op.calls) = 1
           ELSE LET last == op.calls[Len(op.calls)]
                IN /\ last.fn = "exists"
                   /\ last.path = op.path
                   /\ op.path = ExpectedLoadPath
                   /\ op.ret.bool = last.found

C5_Witness == op.name = "exists" /\ ResolutionFailed /\ op.ret.bool = FALSE

\* C6: with versioning enabled no save() writes to a path that already held
\* a version.
C6_SaveNeverOverwritesAVersion ==
    [][(/\ op'.name = "save"
        /\ _version.versioned
        /\ \E i \in DOMAIN op'.calls :
              op'.calls[i].fn = "write" /\ op'.calls[i].raised = "None")
       => ~objects[op'.path].present]_vars

C8_DescribeIsPure ==
    [][op'.name = "describe" =>
          /\ config' = config
          /\ objects' = objects
          /\ dircache' = dircache
          /\ op'.calls = <<>>
          /\ op'.exc = "None"
          /\ op'.ret.dict = [filepath |-> _filepath, load_args |-> _load_args,
                             save_args |-> _save_args,
                             version |-> _version]]_vars

C8_Witness ==
    /\ op.name = "describe" /\ op.ret.dict.load_args # op.ret.dict.save_args
    /\ Present # {} /\ \E p \in Paths : dircache[p].cached

\* C9: a store call that raises is the last store call of load(), save() or
\* exists() (it is not repeated and nothing follows it) and the method
\* raises the same exception.
C9_StoreFailurePropagates ==
    op.name \in {"load", "save", "exists"} =>
        \A i \in DOMAIN op.calls :
            op.calls[i].raised # "None"
                => (i = Len(op.calls) /\ op.exc = op.calls[i].raised)

\* The transport fails in the glob of the resolution inside exists().
C9_Witness ==
    /\ op.name = "exists" /\ Latest /\ Len(op.calls) = 1
    /\ op.calls[1].fn = "glob" /\ op.calls[1].raised = "StoreError"
    /\ op.exc = "StoreError"

\* C10, as claimed: every load() and exists() with the 'latest' selector
\* resolves to the latest version present in the store at the time of the
\* call.
C10_ResolvesAgainstTheStore ==
    (op.name \in {"load", "exists"} /\ Latest) => op.path = LatestPresent

\* C10, amended: the configuration never changes, and every load() and
\* exists() with the 'latest' selector resolves anew, to the latest version
\* the client's glob lists at the time of the call: the versions present in
\* the store when the client holds no cached listing for the filepath, the
\* cached ones otherwise.
C10_ResolvesAgainstTheClientsListing ==
    [][/\ config' = config
       /\ (op'.name \in {"load", "exists"} /\ Latest) =>
             LET g == op'.calls[1]
             IN /\ g.fn = "glob"
                /\ g.hit = dircache[_filepath].cached
                /\ g.listed = IF g.hit THEN dircache[_filepath].children
                              ELSE Present
                /\ op'.path = IF g.listed = {} THEN NoPath
                              ELSE _get_versioned_path(Max(g.listed))]_vars

\* A resolution against the store itself, with several versions present.
C10_Witness ==
    /\ op.name = "exists" /\ Latest /\ caching
    /\ ~op.calls[1].hit /\ Cardinality(Present) > 1
    /\ op.path = LatestPresent

====
